---- MODULE Spec2Model ----
(***************************************************************************)
(* PSS2 CSV viewer: pick a CSV file, load its TIME / VOLTAGE / AMPERE      *)
(* columns, build a dual-axis chart, optionally save it as HTML.           *)
(*                                                                         *)
(* Three entry points share the logic: main.py (tkinter dialogs),          *)
(* csv_reader.py and pss2_csv_viewer.py (Qt dialogs).                      *)
(*                                                                         *)
(* Text is modelled as a sequence of one-character strings, so that the    *)
(* conversions (unit removal, float parsing, timestamp parsing, path name) *)
(* are computed character by character, as the libraries compute them.     *)
(***************************************************************************)
EXTENDS Integers, Sequences, FiniteSets, TLC

VARIABLES entry, pc, filepath, csv_file, test_data, fig, save_filepath,
          written, log, calls

vars == <<entry, pc, filepath, csv_file, test_data, fig, save_filepath,
          written, log, calls>>

---------------------------------------------------------------------------
(* Bounds of the model.                                                    *)

\* longest path the open-file picker returns, in characters
MaxPathLen == 3

\* most data rows of a generated well-formed file
MaxRows == 2

\* longest generated voltage / current cell, in characters
MaxCellLen == 4

---------------------------------------------------------------------------
(* Text helpers.                                                           *)

\* an optional value is None or Some(x)
None == <<>>

Some(x) == <<x>>

\* Op applied to the value of v, which is evaluated once
Apply(Op(_), v) == CHOOSE r \in { Op(x) : x \in {v} } : TRUE

Range(s) == { s[i] : i \in 1..Len(s) }

Drop(s, n) == SubSeq(s, n + 1, Len(s))

IsPrefix(p, s) == Len(p) <= Len(s) /\ SubSeq(s, 1, Len(p)) = p

SeqsUpTo(S, n) == UNION { [1..k -> S] : k \in 0..n }

DigitChars == <<"0", "1", "2", "3", "4", "5", "6", "7", "8", "9">>

Digits == Range(DigitChars)

DigitVal(c) == (CHOOSE i \in 1..Len(DigitChars) : DigitChars[i] = c) - 1

\* the natural number a digit string denotes
RECURSIVE DecimalOf(_)
DecimalOf(s) ==
    IF s = <<>> THEN 0
    ELSE 10 * DecimalOf(SubSeq(s, 1, Len(s) - 1)) + DigitVal(s[Len(s)])

\* str.replace(pat, "") : every non-overlapping occurrence of pat, scanning
\* from the left, is removed (pat holds no regex metacharacter)
RECURSIVE StrReplace(_, _)
StrReplace(s, pat) ==
    IF s = <<>> THEN <<>>
    ELSE IF IsPrefix(pat, s) THEN StrReplace(Drop(s, Len(pat)), pat)
    ELSE <<Head(s)>> \o StrReplace(Tail(s), pat)

---------------------------------------------------------------------------
(* float(text): [sign] digits [. digits] | [sign] . digits                 *)
(* (exponents, inf/nan, blanks and underscores are outside the alphabet    *)
(* of the generated cells).  A value is kept exactly, as unscaled digits   *)
(* and a number of decimals, normalised so that equal numbers are equal.   *)

Unsigned(s) == IF s # <<>> /\ Head(s) \in {"+", "-"} THEN Tail(s) ELSE s

DotCount(s) == Cardinality({ i \in 1..Len(s) : s[i] = "." })

IsFloatText(s) ==
    LET u == Unsigned(s)
    IN  /\ u # <<>>
        /\ \A i \in 1..Len(u) : u[i] \in Digits \cup {"."}
        /\ DotCount(u) <= 1
        /\ \E i \in 1..Len(u) : u[i] \in Digits

RECURSIVE Normalise(_, _)
Normalise(n, d) ==
    IF d > 0 /\ n % 10 = 0 THEN Normalise(n \div 10, d - 1)
    ELSE [nan |-> FALSE, neg |-> FALSE, num |-> n, dec |-> d]

NaN == [nan |-> TRUE, neg |-> FALSE, num |-> 0, dec |-> 0]

FloatOf(s) ==
    LET u    == Unsigned(s)
        dot  == IF DotCount(u) = 0 THEN Len(u) + 1
                ELSE CHOOSE i \in 1..Len(u) : u[i] = "."
        ds   == SubSeq(u, 1, dot - 1) \o SubSeq(u, dot + 1, Len(u))
        v    == Normalise(DecimalOf(ds), Len(u) - (IF dot > Len(u) THEN Len(u) ELSE dot))
    IN  [v EXCEPT !.neg = (s # <<>> /\ Head(s) = "-" /\ v.num # 0)]

---------------------------------------------------------------------------
(* pd.to_datetime(text, format="%m/%d/%Y %I:%M:%S %p"), one cell.          *)
(* A parse is [ok, rest, val]: val collects the fields read so far.        *)

TimeFormat == <<"m", "/", "d", "/", "Y", " ", "I", ":", "M", ":", "S", " ", "p">>

RECURSIVE DigitRun(_, _)
DigitRun(s, max) ==
    IF max = 0 \/ s = <<>> \/ Head(s) \notin Digits THEN 0
    ELSE 1 + DigitRun(Tail(s), max - 1)

Failed == [ok |-> FALSE, rest |-> <<>>, val |-> <<>>]

\* a numeric directive of at most `max` digits (exactly `max` when `exact`),
\* accepted when its value lies in lo..hi
NumField(p, max, exact, lo, hi) ==
    LET k == DigitRun(p.rest, max)
        v == DecimalOf(SubSeq(p.rest, 1, k))
    IN  IF ~p.ok \/ k = 0 \/ (exact /\ k # max) \/ v < lo \/ v > hi THEN Failed
        ELSE [ok |-> TRUE, rest |-> Drop(p.rest, k), val |-> Append(p.val, v)]

Literal(p, c) ==
    IF ~p.ok \/ p.rest = <<>> \/ Head(p.rest) # c THEN Failed
    ELSE [p EXCEPT !.rest = Tail(p.rest)]

RECURSIVE SkipBlanks(_)
SkipBlanks(s) == IF s # <<>> /\ Head(s) = " " THEN SkipBlanks(Tail(s)) ELSE s

\* a blank of the format matches one or more blanks of the text
Blank(p) ==
    IF ~p.ok \/ p.rest = <<>> \/ Head(p.rest) # " " THEN Failed
    ELSE [p EXCEPT !.rest = SkipBlanks(p.rest)]

\* %p : AM or PM, in either case; recorded as 0 (AM) or 1 (PM)
Meridiem(p) ==
    IF ~p.ok \/ Len(p.rest) < 2 \/ p.rest[2] \notin {"M", "m"}
       \/ p.rest[1] \notin {"A", "a", "P", "p"} THEN Failed
    ELSE [ok |-> TRUE, rest |-> Drop(p.rest, 2),
          val |-> Append(p.val, IF p.rest[1] \in {"P", "p"} THEN 1 ELSE 0)]

Directive(p, d) ==
    CASE d = "m" -> NumField(p, 2, FALSE, 1, 12)
      [] d = "d" -> NumField(p, 2, FALSE, 1, 31)
      [] d = "Y" -> NumField(p, 4, TRUE, 1, 9999)
      [] d = "I" -> NumField(p, 2, FALSE, 1, 12)
      [] d = "M" -> NumField(p, 2, FALSE, 0, 59)
      [] d = "S" -> NumField(p, 2, FALSE, 0, 59)
      [] d = "p" -> Meridiem(p)
      [] d = " " -> Blank(p)
      [] OTHER   -> Literal(p, d)

RECURSIVE MatchFormat(_, _)
MatchFormat(p, fmt) ==
    IF fmt = <<>> THEN p ELSE MatchFormat(Directive(p, Head(fmt)), Tail(fmt))

IsLeap(y) == (y % 4 = 0 /\ y % 100 # 0) \/ y % 400 = 0

DaysInMonth(y, m) ==
    IF m = 2 THEN (IF IsLeap(y) THEN 29 ELSE 28)
    ELSE IF m \in {4, 6, 9, 11} THEN 30 ELSE 31

\* the 24-hour hour of a 12-hour clock reading
Hour24(h, pm) == (h % 12) + (IF pm = 1 THEN 12 ELSE 0)

NaT == [nat |-> TRUE, ymd |-> <<0, 0, 0>>, hms |-> <<0, 0, 0>>]

\* the instant the seven fields read name
Instant(v) ==
    [nat |-> FALSE, ymd |-> <<v[3], v[1], v[2]>>,
     hms |-> <<Hour24(v[4], v[7]), v[5], v[6]>>]

\* [ok, val]: the whole text must match the format and name a real date
ParseTime(s) ==
    Apply(LAMBDA p :
            IF p.ok /\ p.rest = <<>> /\ p.val[2] <= DaysInMonth(p.val[3], p.val[1])
            THEN [ok |-> TRUE, val |-> Instant(p.val)]
            ELSE [ok |-> FALSE, val |-> NaT],
          MatchFormat([ok |-> TRUE, rest |-> s, val |-> <<>>], TimeFormat))

---------------------------------------------------------------------------
(* Paths: the csv title is the path's final component.                     *)

\* the components of a path, split at every "/"
RECURSIVE Split(_, _)
Split(s, acc) ==
    IF s = <<>> THEN <<acc>>
    ELSE IF Head(s) = "/" THEN <<acc>> \o Split(Tail(s), <<>>)
    ELSE Split(Tail(s), Append(acc, Head(s)))

RECURSIVE LastSlash(_)
LastSlash(s) ==
    IF s = <<>> THEN 0
    ELSE IF s[Len(s)] = "/" THEN Len(s)
    ELSE LastSlash(SubSeq(s, 1, Len(s) - 1))

\* os.path.basename(path): what follows the last "/"
Basename(path) == Drop(path, LastSlash(path))

RECURSIVE Parts(_)
Parts(cs) ==
    IF cs = <<>> THEN <<>>
    ELSE IF Head(cs) \in {<<>>, <<".">>} THEN Parts(Tail(cs))
    ELSE <<Head(cs)>> \o Parts(Tail(cs))

\* pathlib.Path(path).name: the last part, once empty and "." components
\* are dropped
PathName(path) ==
    LET ps == Parts(Split(path, <<>>))
    IN  IF ps = <<>> THEN <<>> ELSE ps[Len(ps)]

\* a regular file can only be opened under a path whose last component is
\* a name
IsFilePath(path) == Basename(path) \notin {<<>>, <<".">>, <<".", ".">>}

---------------------------------------------------------------------------
(* pd.read_csv(filepath, skiprows=[1], usecols=[5, 6, 7]).                 *)
(* A file is [status, ncols, header, rest]: header holds the names of      *)
(* columns 5..7 of line 0, rest the cells of columns 5..7 of every later   *)
(* line.  A data frame is [cols, data], data[j] being column j.            *)

UseCols == <<5, 6, 7>>

\* skiprows: the line numbers (line 0 is the header) left out of the frame
SkipRows == {1}

\* a repeated header name gets the suffix .1, .2, ...
Mangle(header) ==
    [i \in 1..Len(header) |->
        LET k == Cardinality({ j \in 1..(i - 1) : header[j] = header[i] })
        IN  IF k = 0 THEN header[i] ELSE header[i] \o "." \o ToString(k)]

\* the lines of the file, from line i on, that become rows of the frame
RECURSIVE KeptFrom(_, _)
KeptFrom(rest, i) ==
    IF i > Len(rest) THEN <<>>
    ELSE (IF i \in SkipRows THEN <<>> ELSE <<rest[i]>>) \o KeptFrom(rest, i + 1)

\* skiprows left out: every line after the header becomes a row
KeptLinesAll(rest) == rest

KeptLines(rest) == KeptFrom(rest, 1)

\* the parser reads a column as numbers when every cell is a number or
\* empty; otherwise the cells stay text, an empty cell being NaN
NumericColumn(col) ==
    Len(col) >= 1 /\ \A i \in 1..Len(col) : col[i] = <<>> \/ IsFloatText(col[i])

OpenError(file) ==
    CASE file.status = "nonexistent" -> "FileNotFoundError"
      [] file.status = "unreadable"  -> "PermissionError"
      [] file.status = "empty"       -> "EmptyDataError"
      [] OTHER                       -> "none"

ReadCsv(file) ==
    IF OpenError(file) # "none"
    THEN [exc |-> OpenError(file), cols |-> <<>>, data |-> <<>>]
    ELSE IF \E j \in 1..Len(UseCols) : UseCols[j] >= file.ncols
    THEN [exc |-> "ParserError", cols |-> <<>>, data |-> <<>>]
    ELSE LET rows == KeptLines(file.rest)
         IN  [exc  |-> "none",
              cols |-> Mangle(file.header),
              data |-> [j \in 1..Len(UseCols) |->
                           [i \in 1..Len(rows) |-> rows[i][j]]]]

\* df.rename(columns={from: to}, inplace=True); a name that is not there
\* is left alone
Rename(df, from, to) ==
    [df EXCEPT !.cols = [j \in 1..Len(df.cols) |->
                            IF df.cols[j] = from THEN to ELSE df.cols[j]]]

\* df[name] read by position instead: the column where the name belongs
LabelledByPosition(df, name) ==
    CASE name = "Time"         -> {1}
      [] name = "Voltage (kV)" -> {2}
      [] OTHER                 -> {3}

\* df[name]: the columns that carry the name
Labelled(df, name) == { j \in 1..Len(df.cols) : df.cols[j] = name }

\* the exception of df[name] followed by a Series operation, if any:
\* no such column, or several of them (df[name] is then a frame)
GetError(df, name, onFrame) ==
    IF Labelled(df, name) = {} THEN "KeyError"
    ELSE IF Cardinality(Labelled(df, name)) > 1 THEN onFrame
    ELSE "none"

Column(df, name) == df.data[CHOOSE j \in Labelled(df, name) : TRUE]

\* pd.to_datetime(column, format=...): NaN becomes NaT, any other cell
\* must match the format
ToDatetime(col) ==
    IF \E i \in 1..Len(col) : col[i] # <<>> /\ ~ParseTime(col[i]).ok
    THEN [exc |-> "ValueError", col |-> <<>>]
    ELSE [exc |-> "none",
          col |-> [i \in 1..Len(col) |->
                      IF col[i] = <<>> THEN NaT ELSE ParseTime(col[i]).val]]

\* column.str.replace(unit, "", regex=True).astype(float)
StripUnit(col, unit) ==
    IF NumericColumn(col) THEN [exc |-> "AttributeError", col |-> <<>>]
    ELSE LET txt == [i \in 1..Len(col) |-> StrReplace(col[i], unit)]
         IN  IF \E i \in 1..Len(col) : col[i] # <<>> /\ ~IsFloatText(txt[i])
             THEN [exc |-> "ValueError", col |-> <<>>]
             ELSE [exc |-> "none",
                   col |-> [i \in 1..Len(col) |->
                               IF col[i] = <<>> THEN NaN ELSE FloatOf(txt[i])]]

---------------------------------------------------------------------------
(* CSVLoader.load_test_data                                                *)

Entries == {"main", "csv_reader", "pss2_csv_viewer"}

KV == <<"k", "V">>

MA == <<"m", "A">>

EmptyTestData == [csv_title |-> None, time |-> None, voltage |-> None, current |-> None]

\* the whole path taken as the title
CsvTitleFullPath(e, path) == path

\* filepath.name in main.py, os.path.basename(filepath) in the Qt scripts
CsvTitle(e, path) == IF e = "main" THEN PathName(path) ELSE Basename(path)

\* the three renames of the frame read
Renamed(rd) ==
    Apply(LAMBDA d2 : Rename(d2, "AMPERE", "Current (mA)"),
          Apply(LAMBDA d1 : Rename(d1, "VOLTAGE", "Voltage (kV)"),
                Rename(rd, "TIME", "Time")))

\* pd.to_datetime(df["Time"], ...) : [exc, col]
TimeSeries(df) ==
    IF GetError(df, "Time", "ValueError") # "none"
    THEN [exc |-> GetError(df, "Time", "ValueError"), col |-> <<>>]
    ELSE Apply(ToDatetime, Column(df, "Time"))

\* df[name].str.replace(unit, "", regex=True).astype(float) : [exc, col]
UnitSeries(df, name, unit) ==
    IF GetError(df, name, "AttributeError") # "none"
    THEN [exc |-> GetError(df, name, "AttributeError"), col |-> <<>>]
    ELSE Apply(LAMBDA col : StripUnit(col, unit), Column(df, name))

LoadFailure(x) == [exc |-> x, data |-> EmptyTestData]

\* the statements after read_csv, in order: the first exception ends them
Convert(csv_title, tm, vo, cu) ==
    IF tm.exc # "none" THEN LoadFailure(tm.exc)
    ELSE IF vo.exc # "none" THEN LoadFailure(vo.exc)
    ELSE IF cu.exc # "none" THEN LoadFailure(cu.exc)
    ELSE [exc  |-> "none",
          data |-> [csv_title |-> Some(csv_title),
                    time      |-> Some(tm.col),
                    voltage   |-> Some(vo.col),
                    current   |-> Some(cu.col)]]

\* the body of the try block: [exc, data], exc being "none" on return
LoadBody(e, path, f) ==
    Apply(LAMBDA rd :
            IF rd.exc # "none" THEN LoadFailure(rd.exc)
            ELSE Apply(LAMBDA df :
                         Apply(LAMBDA tm :
                           Apply(LAMBDA vo :
                             Apply(LAMBDA cu : Convert(CsvTitle(e, path), tm, vo, cu),
                                   UnitSeries(df, "Current (mA)", MA)),
                             UnitSeries(df, "Voltage (kV)", KV)),
                           TimeSeries(df)),
                       Renamed(rd)),
          ReadCsv(f))

\* except ValueError: a narrower handler
CatchesValueError(exc) == exc = "ValueError"

\* except Exception: every exception but the BaseException-only ones
Catches(exc) == exc \notin {"KeyboardInterrupt", "SystemExit", "GeneratorExit"}

\* [raised, data, printed]: what the call raises ("none" when it returns),
\* returns and prints
LoadTestData(e, path, f) ==
    Apply(LAMBDA r :
            IF r.exc = "none"
            THEN [raised |-> "none", data |-> r.data, printed |-> <<>>]
            ELSE IF Catches(r.exc)
            THEN [raised |-> "none", data |-> EmptyTestData,
                  printed |-> <<[msg |-> "Error", arg |-> <<r.exc>>]>>]
            ELSE [raised |-> r.exc, data |-> EmptyTestData, printed |-> <<>>],
          LoadBody(e, path, f))

---------------------------------------------------------------------------
(* plot_test_data                                                          *)

VoltageTrace(data) ==
    [name |-> "Voltage (kV)", x |-> data.time[1], y |-> data.voltage[1],
     color |-> "blue", yaxis |-> "y"]

CurrentTrace(data) ==
    [name |-> "Current (mA)", x |-> data.time[1], y |-> data.current[1],
     color |-> "red", yaxis |-> "y2"]

HasVoltageTrace(data) == data.time # None /\ data.voltage # None

\* the current trace drawn only beside a voltage trace
HasCurrentTraceWithVoltage(data) ==
    data.time # None /\ data.voltage # None /\ data.current # None

HasCurrentTrace(data) == data.time # None /\ data.current # None

\* range=[0, 41]
YAxisRange == <<Normalise(0, 0), Normalise(41, 0)>>

\* the current axis given the voltage axis's range
YAxis2RangeAsYAxis == <<Normalise(0, 0), Normalise(41, 0)>>

\* range=[0, 0.061]
YAxis2Range == <<Normalise(0, 0), Normalise(61, 3)>>

PlotTestData(data) ==
    [traces  |-> (IF HasVoltageTrace(data) THEN <<VoltageTrace(data)>> ELSE <<>>)
                 \o (IF HasCurrentTrace(data) THEN <<CurrentTrace(data)>> ELSE <<>>),
     title   |-> data.csv_title,
     yaxis   |-> YAxisRange,
     yaxis2  |-> YAxis2Range,
     showlegend |-> FALSE]

---------------------------------------------------------------------------
(* save_plot                                                               *)

\* the chart written whatever the dialog answers
SavePlotAlways(figure, answer) ==
    [written |-> <<[path |-> answer, fig |-> figure]>>,
     printed |-> <<[msg |-> "Plot saved as", arg |-> answer]>>]

\* [written, printed]: the files written and the line printed, given the
\* save dialog's answer ("" when it is cancelled)
SavePlot(figure, answer) ==
    IF answer # <<>>
    THEN [written |-> <<[path |-> answer, fig |-> figure]>>,
          printed |-> <<[msg |-> "Plot saved as", arg |-> answer]>>]
    ELSE [written |-> <<>>,
          printed |-> <<[msg |-> "Save operation was canceled.", arg |-> <<>>]>>]

---------------------------------------------------------------------------
(* The entry points.                                                       *)

\* select_csv: Path(filepath) if filepath else None in main.py, the
\* dialog's string ("" when cancelled) in the Qt scripts
SelectCsv(e, answer) ==
    IF e = "main" THEN (IF answer # <<>> THEN Some(answer) ELSE None)
    ELSE Some(answer)

\* main.py goes on only `if filepath:`; the Qt scripts go on always
AfterSelect(e, fp) == IF e = "main" /\ fp = None THEN "done" ELSE "load"

AfterLoad(raised) == IF raised = "none" THEN "plot" ELSE "crashed"

AfterPlot == "save"

\* the script starting over once the chart is saved
AfterSaveLoop == "select"

AfterSave == "done"

---------------------------------------------------------------------------
(* Inputs: cells, rows, headers and files.                                 *)

\* "6/15/2023 2:30:00 PM"
T1 == <<"6", "/", "1", "5", "/", "2", "0", "2", "3", " ",
        "2", ":", "3", "0", ":", "0", "0", " ", "P", "M">>

\* "12/31/2023 12:00:00 AM"
T2 == <<"1", "2", "/", "3", "1", "/", "2", "0", "2", "3", " ",
        "1", "2", ":", "0", "0", ":", "0", "0", " ", "A", "M">>

\* "2/30/2023 1:00:00 AM": no such day
TBadDay == <<"2", "/", "3", "0", "/", "2", "0", "2", "3", " ",
             "1", ":", "0", "0", ":", "0", "0", " ", "A", "M">>

\* "6/15/2023 14:30:00": a 24-hour reading, no AM/PM
TBadHour == <<"6", "/", "1", "5", "/", "2", "0", "2", "3", " ",
              "1", "4", ":", "3", "0", ":", "0", "0">>

GoodTimes == {T1, T2}

BadTimes == {TBadDay, TBadHour, <<"x">>}

\* "12.5kV", "40kV"
GoodVolts == {<<"1", "2", ".", "5", "k", "V">>, <<"4", "0", "k", "V">>}

\* "0.042mA", "1mA"
GoodAmps == {<<"0", ".", "0", "4", "2", "m", "A">>, <<"1", "m", "A">>}

GoodRows == { <<t, v, c>> : t \in GoodTimes, v \in GoodVolts, c \in GoodAmps }

GoodRow == <<T1, <<"4", "0", "k", "V">>, <<"1", "m", "A">>>>

\* the second line of a file: a units line, or a line that looks like data
UnitsRow == <<<<"s">>, KV, MA>>

SecondRows == {UnitsRow, GoodRow}

HeaderNames == {"TIME", "VOLTAGE", "AMPERE", "Time", "Voltage (kV)",
                "Current (mA)", "DATE"}

CapsHeader == <<"TIME", "VOLTAGE", "AMPERE">>

CanonHeader == <<"Time", "Voltage (kV)", "Current (mA)">>

MkFile(h, rest) == [status |-> "ok", ncols |-> 8, header |-> h, rest |-> rest]

Perms == { p \in [1..3 -> 1..3] : \A i, j \in 1..3 : p[i] = p[j] => i = j }

Permuted(row, p) == [j \in 1..3 |-> row[p[j]]]

\* well-formed files: header, one discarded line, at most MaxRows data rows
WellFormedFiles ==
    { MkFile(h, <<r2>> \o d) :
        h \in {CapsHeader, CanonHeader}, r2 \in SecondRows,
        d \in SeqsUpTo(GoodRows, MaxRows) }

\* every header over HeaderNames, above no data row or one data row whose
\* cells stand in any order
HeaderFiles ==
    { MkFile(h, <<UnitsRow>> \o d) :
        h \in [1..3 -> HeaderNames],
        d \in {<<>>} \cup { <<Permuted(GoodRow, p)>> : p \in Perms } }

VoltChars == {"1", ".", "k", "V"}

AmpChars == {"1", ".", "m", "A"}

\* one cell of any text, alone in its column or below a well-formed cell
CellRows ==
    { <<T1, v, GoodRow[3]>> : v \in SeqsUpTo(VoltChars, MaxCellLen) }
    \cup { <<T1, GoodRow[2], c>> : c \in SeqsUpTo(AmpChars, MaxCellLen) }

CellFiles ==
    { MkFile(CapsHeader, <<UnitsRow>> \o d) :
        d \in { <<r>> : r \in CellRows } \cup { <<GoodRow, r>> : r \in CellRows } }

TimeRows == { <<t, GoodRow[2], GoodRow[3]>> : t \in BadTimes \cup {<<>>} }

TimeFiles ==
    { MkFile(CapsHeader, <<UnitsRow>> \o d) :
        d \in { <<r>> : r \in TimeRows } \cup { <<GoodRow, r>> : r \in TimeRows }
              \cup { <<r, GoodRow>> : r \in TimeRows } }

GoodFile == MkFile(CapsHeader, <<UnitsRow, GoodRow>>)

\* files that cannot be read, or that have too few or more columns
BrokenFiles ==
    { [GoodFile EXCEPT !.status = st] : st \in {"nonexistent", "unreadable", "empty"} }
    \cup { [GoodFile EXCEPT !.ncols = n] : n \in 5..10 }
    \cup { MkFile(CapsHeader, <<>>) }

LoadFiles == WellFormedFiles \cup HeaderFiles \cup CellFiles \cup TimeFiles \cup BrokenFiles

\* what the open dialog can answer: "" (cancelled) or a path
PathChars == {"a", "/", "."}

OpenAnswers == SeqsUpTo(PathChars, MaxPathLen)

\* what the save dialog can answer
SaveAnswers == {<<>>, <<"o">>, <<"d", "/", "o">>}

Missing == [GoodFile EXCEPT !.status = "nonexistent"]

\* what the disk can hold under a path the open dialog answers
DiskFiles(answer) ==
    IF ~IsFilePath(answer)
    THEN {Missing, [GoodFile EXCEPT !.status = "unreadable"]}
    ELSE {Missing, GoodFile,
          MkFile(CanonHeader, <<GoodRow, GoodRow, <<T2, GoodRow[2], GoodRow[3]>>>>),
          MkFile(CapsHeader, <<UnitsRow>>),
          MkFile(<<"DATE", "VOLTAGE", "AMPERE">>, <<UnitsRow, GoodRow>>),
          MkFile(CapsHeader, <<UnitsRow, <<TBadHour, GoodRow[2], GoodRow[3]>>>>),
          MkFile(CapsHeader, <<UnitsRow, <<T1, <<"x">>, GoodRow[3]>>>>),
          [GoodFile EXCEPT !.ncols = 7]}

\* records handed to plot_test_data, the partially filled ones included
TimeValues == { ParseTime(t).val : t \in GoodTimes }

FloatValues == { FloatOf(<<"5", "0">>), FloatOf(<<".", "5">>) }

Optional(S) == {None} \cup { Some(x) : x \in S }

TestDataRecords ==
    [csv_title : Optional({<<"f">>}),
     time      : Optional(SeqsUpTo(TimeValues, MaxRows)),
     voltage   : Optional(SeqsUpTo(FloatValues, MaxRows)),
     current   : Optional(SeqsUpTo(FloatValues, MaxRows))]

---------------------------------------------------------------------------
(* The scripts, step by step.                                              *)

Init ==
    /\ entry \in Entries
    /\ pc = "select"
    /\ filepath = None
    /\ csv_file = Missing
    /\ test_data = EmptyTestData
    /\ fig = None
    /\ save_filepath = None
    /\ written = <<>>
    /\ log = <<>>
    /\ calls = <<>>

\* filepath = csv_loader.select_csv()
SelectStep ==
    /\ pc = "select"
    /\ \E answer \in OpenAnswers :
         \E f \in DiskFiles(answer) :
            /\ filepath' = SelectCsv(entry, answer)
            /\ csv_file' = f
            /\ pc' = AfterSelect(entry, SelectCsv(entry, answer))
    /\ calls' = Append(calls, "select_csv")
    /\ UNCHANGED <<entry, test_data, fig, save_filepath, written, log>>

\* test_data = csv_loader.load_test_data(filepath)
LoadStep ==
    /\ pc = "load"
    /\ \E r \in {LoadTestData(entry, filepath[1], csv_file)} :
           /\ test_data' = r.data
           /\ log' = log \o r.printed
           /\ pc' = AfterLoad(r.raised)
    /\ calls' = Append(calls, "load_test_data")
    /\ UNCHANGED <<entry, filepath, csv_file, fig, save_filepath, written>>

\* fig = plot_test_data(test_data)
PlotStep ==
    /\ pc = "plot"
    /\ fig' = Some(PlotTestData(test_data))
    /\ pc' = AfterPlot
    /\ calls' = Append(calls, "plot_test_data")
    /\ UNCHANGED <<entry, filepath, csv_file, test_data, save_filepath, written, log>>

\* save_plot(fig)
SaveStep ==
    /\ pc = "save"
    /\ \E answer \in SaveAnswers :
         \E r \in {SavePlot(fig[1], answer)} :
             /\ save_filepath' = Some(answer)
             /\ written' = written \o r.written
             /\ log' = log \o r.printed
    /\ pc' = AfterSave
    /\ calls' = Append(calls, "save_plot")
    /\ UNCHANGED <<entry, filepath, csv_file, test_data, fig>>

Next == SelectStep \/ LoadStep \/ PlotStep \/ SaveStep

Spec == Init /\ [][Next]_vars

\* load_test_data alone, on every file of LoadFiles
InitLoad ==
    /\ entry \in Entries
    /\ pc = "load"
    /\ filepath = Some(<<"d", "/", "f">>)
    /\ csv_file \in LoadFiles
    /\ test_data = EmptyTestData
    /\ fig = None
    /\ save_filepath = None
    /\ written = <<>>
    /\ log = <<>>
    /\ calls = <<"select_csv">>

SpecLoad == InitLoad /\ [][LoadStep]_vars

\* plot_test_data alone, on every record of TestDataRecords
InitPlot ==
    /\ entry \in Entries
    /\ pc = "plot"
    /\ filepath = Some(<<"d", "/", "f">>)
    /\ csv_file = GoodFile
    /\ test_data \in TestDataRecords
    /\ fig = None
    /\ save_filepath = None
    /\ written = <<>>
    /\ log = <<>>
    /\ calls = <<"select_csv", "load_test_data">>

SpecPlot == InitPlot /\ [][PlotStep]_vars

---------------------------------------------------------------------------
(* Vocabulary of the properties.                                           *)

Called(name) == \E i \in 1..Len(calls) : calls[i] = name

FullyPopulated(d) ==
    d.csv_title # None /\ d.time # None /\ d.voltage # None /\ d.current # None

FullyEmpty(d) ==
    d.csv_title = None /\ d.time = None /\ d.voltage = None /\ d.current = None

ErrorLogged == \E i \in 1..Len(log) : log[i].msg = "Error"

LoadSucceeded == Called("load_test_data") /\ pc # "crashed" /\ ~ErrorLogged

LoadFailed == Called("load_test_data") /\ pc # "crashed" /\ ErrorLogged

---------------------------------------------------------------------------
(* C1: load_test_data never raises, whatever the file (unreadable, too few *)
(* columns, wrong header, malformed timestamp, non-numeric value, well     *)
(* formed), and the record it returns is fully populated or fully empty,   *)
(* never partly filled.                                                    *)

C1_NoRaiseNoPartialRecord ==
    /\ pc # "crashed"
    /\ Called("load_test_data") =>
          /\ FullyPopulated(test_data) \/ FullyEmpty(test_data)
          /\ ErrorLogged <=> FullyEmpty(test_data)

\* a file that opens, whose header is right, and whose timestamp is
\* malformed: the load has returned the empty record
C1_Witness ==
    /\ Called("load_test_data")
    /\ csv_file \in TimeFiles
    /\ \E i \in 2..Len(csv_file.rest) : csv_file.rest[i][1] \in BadTimes
    /\ FullyEmpty(test_data)
    /\ pc = "plot"

---------------------------------------------------------------------------
(* Well-formed input, as the file format is documented: header, one        *)
(* discarded line, then data rows whose columns 5, 6, 7 hold a timestamp,  *)
(* a number followed by kV and a number followed by mA.                    *)

EndsWith(c, unit) ==
    Len(c) >= Len(unit) /\ SubSeq(c, Len(c) - Len(unit) + 1, Len(c)) = unit

NumericPrefix(c, unit) == SubSeq(c, 1, Len(c) - Len(unit))

\* the cell without its unit, the unit being removed at the end only
StripSuffix(c, unit) == IF EndsWith(c, unit) THEN NumericPrefix(c, unit) ELSE c

ValueCellOK(c, unit) == EndsWith(c, unit) /\ IsFloatText(NumericPrefix(c, unit))

DataRows(f) == 2..Len(f.rest)

Readable(f) == f.status = "ok" /\ f.ncols >= 8

HeaderInPlace(h) ==
    /\ h[1] \in {"TIME", "Time"}
    /\ h[2] \in {"VOLTAGE", "Voltage (kV)"}
    /\ h[3] \in {"AMPERE", "Current (mA)"}

WellFormed(f) ==
    /\ Readable(f)
    /\ HeaderInPlace(f.header)
    /\ Len(f.rest) >= 1
    /\ \A i \in DataRows(f) :
          /\ ParseTime(f.rest[i][1]).ok
          /\ ValueCellOK(f.rest[i][2], KV)
          /\ ValueCellOK(f.rest[i][3], MA)

---------------------------------------------------------------------------
(* C3: for a well-formed file with N data rows (N >= 0) the record holds   *)
(* exactly N times, N voltages and N currents, entry i of each coming from *)
(* data row i of the file; the discarded second line gives no entry and no *)
(* data row is dropped or repeated.                                        *)

C3_RowsAlignedByIndex ==
    (Called("load_test_data") /\ WellFormed(csv_file)) =>
        /\ FullyPopulated(test_data)
        /\ Len(test_data.time[1]) = Len(csv_file.rest) - 1
        /\ Len(test_data.voltage[1]) = Len(csv_file.rest) - 1
        /\ Len(test_data.current[1]) = Len(csv_file.rest) - 1
        /\ \A i \in 1..(Len(csv_file.rest) - 1) :
              /\ test_data.time[1][i] = ParseTime(csv_file.rest[i + 1][1]).val
              /\ test_data.voltage[1][i] =
                     FloatOf(NumericPrefix(csv_file.rest[i + 1][2], KV))
              /\ test_data.current[1][i] =
                     FloatOf(NumericPrefix(csv_file.rest[i + 1][3], MA))

\* a well-formed file whose discarded line looks like data and whose data
\* rows differ in every column has been loaded
C3_Witness ==
    /\ Called("load_test_data")
    /\ WellFormed(csv_file)
    /\ csv_file.rest[1] = GoodRow
    /\ Len(csv_file.rest) >= 3
    /\ \A j \in 1..3 : csv_file.rest[2][j] # csv_file.rest[3][j]
    /\ Len(test_data.time[1]) = Len(csv_file.rest) - 1

---------------------------------------------------------------------------
(* C5: the unit is removed as a suffix only: a cell that is a number       *)
(* followed by kV (mA for the current) loads as that number, and a cell    *)
(* that is not a number once its trailing unit is removed makes the load   *)
(* fail and return the empty record.                                       *)

C5_UnitRemovedAsSuffixOnly ==
    (Called("load_test_data") /\ Readable(csv_file) /\ HeaderInPlace(csv_file.header)) =>
        \A i \in DataRows(csv_file) :
            /\ (ValueCellOK(csv_file.rest[i][2], KV) /\ FullyPopulated(test_data)) =>
                  test_data.voltage[1][i - 1] = FloatOf(NumericPrefix(csv_file.rest[i][2], KV))
            /\ (ValueCellOK(csv_file.rest[i][3], MA) /\ FullyPopulated(test_data)) =>
                  test_data.current[1][i - 1] = FloatOf(NumericPrefix(csv_file.rest[i][3], MA))
            /\ ~IsFloatText(StripSuffix(csv_file.rest[i][2], KV)) => FullyEmpty(test_data)
            /\ ~IsFloatText(StripSuffix(csv_file.rest[i][3], MA)) => FullyEmpty(test_data)

---------------------------------------------------------------------------
(* C10: the columns are taken by position but read by name: the load       *)
(* succeeds only if the header cells of columns 5, 6, 7 are named TIME,    *)
(* VOLTAGE, AMPERE (or already Time, Voltage (kV), Current (mA)); a file   *)
(* whose data in those columns is well formed but whose header names       *)
(* differ fails to load and gives the empty record.                        *)
(*                                                                         *)
(* As stated, with each name against its position (column 5 the time       *)
(* name, column 6 the voltage name, column 7 the current name):            *)

C10_NamesInPlace ==
    Called("load_test_data") =>
        /\ FullyPopulated(test_data) => HeaderInPlace(csv_file.header)
        /\ ( /\ Readable(csv_file)
             /\ ~HeaderInPlace(csv_file.header)
             /\ Len(csv_file.rest) >= 1
             /\ \A i \in DataRows(csv_file) :
                   /\ ParseTime(csv_file.rest[i][1]).ok
                   /\ ValueCellOK(csv_file.rest[i][2], KV)
                   /\ ValueCellOK(csv_file.rest[i][3], MA) )
           => FullyEmpty(test_data)

(* C10, amended: the three names are looked up among the three header      *)
(* cells, whichever cell carries which: the load succeeds only if columns  *)
(* 5, 6, 7 carry between them the names TIME (or Time), VOLTAGE (or        *)
(* Voltage (kV)) and AMPERE (or Current (mA)); a file that opens and whose *)
(* three header cells do not carry all three names fails to load and       *)
(* gives the empty record, even when its data is well formed.              *)

Canonical(n) ==
    CASE n = "TIME"    -> "Time"
      [] n = "VOLTAGE" -> "Voltage (kV)"
      [] n = "AMPERE"  -> "Current (mA)"
      [] OTHER         -> n

HeaderNamed(h) ==
    \A name \in {"Time", "Voltage (kV)", "Current (mA)"} :
        \E j \in 1..Len(h) : Canonical(h[j]) = name

\* C10, amended: a populated record implies the three names are in the header
C10_ReadByHeaderName ==
    Called("load_test_data") =>
        /\ FullyPopulated(test_data) => HeaderNamed(csv_file.header)
        /\ (Readable(csv_file) /\ ~HeaderNamed(csv_file.header)) =>
              (FullyEmpty(test_data) /\ ErrorLogged)

\* well-formed data under a header whose first cell is named otherwise:
\* the load has failed
C10_Witness ==
    /\ Called("load_test_data")
    /\ Readable(csv_file)
    /\ csv_file.header = <<"DATE", "VOLTAGE", "AMPERE">>
    /\ csv_file.rest = <<UnitsRow, GoodRow>>
    /\ FullyEmpty(test_data)
    /\ ErrorLogged

---------------------------------------------------------------------------
(* Vocabulary of the chart properties.                                     *)

TracesNamed(figure, name) ==
    { i \in 1..Len(figure.traces) : figure.traces[i].name = name }

\* the number 0.061 and the numbers 0 and 41, as exact values
Exact(n, d) == [nan |-> FALSE, neg |-> FALSE, num |-> n, dec |-> d]

---------------------------------------------------------------------------
(* C4: the chart of a fully populated record has exactly two traces, the   *)
(* voltage on the primary axis and the current on the secondary one; the   *)
(* chart of a fully empty record has none; building never raises; and      *)
(* whatever the data, the voltage axis spans exactly [0, 41] and the       *)
(* current axis exactly [0, 0.061].                                        *)

C4_TwoTracesFixedRanges ==
    /\ pc # "crashed"
    /\ Called("plot_test_data") =>
          /\ fig # None
          /\ fig[1].yaxis = <<Exact(0, 0), Exact(41, 0)>>
          /\ fig[1].yaxis2 = <<Exact(0, 0), Exact(61, 3)>>
          /\ FullyPopulated(test_data) =>
                /\ Len(fig[1].traces) = 2
                /\ fig[1].traces[1].y = test_data.voltage[1]
                /\ fig[1].traces[1].x = test_data.time[1]
                /\ fig[1].traces[1].yaxis = "y"
                /\ fig[1].traces[2].y = test_data.current[1]
                /\ fig[1].traces[2].x = test_data.time[1]
                /\ fig[1].traces[2].yaxis = "y2"
          /\ FullyEmpty(test_data) => fig[1].traces = <<>>

\* a populated record holding a voltage above 41 has been charted
C4_Witness ==
    /\ Called("plot_test_data")
    /\ FullyPopulated(test_data)
    /\ \E i \in 1..Len(test_data.voltage[1]) : test_data.voltage[1][i] = Exact(50, 0)
    /\ Len(fig[1].traces) = 2

---------------------------------------------------------------------------
(* C9: each trace is decided on its own, for partly filled records too:    *)
(* the voltage trace is there iff time and voltage are present, the        *)
(* current trace iff time and current are present; so no time means no     *)
(* trace, and time with exactly one of voltage and current means exactly   *)
(* one trace.                                                              *)

C9_TracesDecidedIndependently ==
    Called("plot_test_data") =>
        /\ Cardinality(TracesNamed(fig[1], "Voltage (kV)")) =
              (IF test_data.time # None /\ test_data.voltage # None THEN 1 ELSE 0)
        /\ Cardinality(TracesNamed(fig[1], "Current (mA)")) =
              (IF test_data.time # None /\ test_data.current # None THEN 1 ELSE 0)
        /\ Len(fig[1].traces) =
              Cardinality(TracesNamed(fig[1], "Voltage (kV)"))
              + Cardinality(TracesNamed(fig[1], "Current (mA)"))
        /\ test_data.time = None => fig[1].traces = <<>>
        /\ (test_data.time # None /\ (test_data.voltage = None) # (test_data.current = None))
              => Len(fig[1].traces) = 1

\* a record with time and current but no voltage has been charted with
\* one trace
C9_Witness ==
    /\ Called("plot_test_data")
    /\ test_data.time # None
    /\ test_data.voltage = None
    /\ test_data.current # None
    /\ Len(fig[1].traces) = 1
    /\ fig[1].traces[1].name = "Current (mA)"

---------------------------------------------------------------------------
(* C2: in every entry point, once the open dialog is cancelled (no path)   *)
(* the run stops silently: load_test_data, plot_test_data and save_plot    *)
(* are never called and no load error is printed.                          *)

OpenCancelled == Called("select_csv") /\ filepath \in {None, Some(<<>>)}

\* C2: a cancelled open dialog is followed by no call and no printed line
C2_CancelStopsEveryEntryPoint ==
    OpenCancelled => (calls = <<"select_csv">> /\ log = <<>>)

---------------------------------------------------------------------------
(* C6: a run is the line select_csv, load_test_data, plot_test_data,       *)
(* save_plot: each is called at most once and only after the one before    *)
(* it has returned, none is repeated or called out of order, so a run      *)
(* handles at most one file.                                               *)

Pipeline == <<"select_csv", "load_test_data", "plot_test_data", "save_plot">>

\* C6: the calls made so far are always an initial part of the pipeline
C6_StrictlyLinearPipeline ==
    /\ Len(calls) <= Len(Pipeline)
    /\ calls = SubSeq(Pipeline, 1, Len(calls))
    /\ Called("load_test_data") => filepath # None
    /\ Called("plot_test_data") <=> fig # None
    /\ Called("save_plot") <=> save_filepath # None
    /\ Called("save_plot") => fig # None

\* a run that went through all four steps
C6_Witness == calls = Pipeline /\ pc = "done"

---------------------------------------------------------------------------
(* C7: save_plot writes the chart exactly when the save dialog gives a     *)
(* path, once and under that path; when the dialog is cancelled nothing is *)
(* written, nothing is raised, and the run ends after printing that the    *)
(* save was cancelled.                                                     *)

LastLog == log[Len(log)]

\* C7: one file written under the chosen path, none when cancelled
C7_SavedIffPathChosen ==
    /\ ~Called("save_plot") => written = <<>>
    /\ Called("save_plot") =>
          /\ pc = "done"
          /\ save_filepath[1] # <<>> =>
                /\ written = <<[path |-> save_filepath[1], fig |-> fig[1]]>>
                /\ LastLog = [msg |-> "Plot saved as", arg |-> save_filepath[1]]
          /\ save_filepath[1] = <<>> =>
                /\ written = <<>>
                /\ LastLog = [msg |-> "Save operation was canceled.", arg |-> <<>>]

\* the save dialog was cancelled after a chart with traces was shown
C7_Witness ==
    /\ Called("save_plot")
    /\ save_filepath = Some(<<>>)
    /\ Len(fig[1].traces) = 2
    /\ written = <<>>
    /\ pc = "done"

---------------------------------------------------------------------------
(* C8: after a successful load the title is the final component of the     *)
(* selected path, not the whole path; after a failed load there is no      *)
(* title; the chart carries the record's title; so the chart shows the     *)
(* file's name iff the load succeeded.                                     *)

\* t is the final component of path: what follows its last "/"
FinalComponent(path, t) ==
    /\ t # <<>>
    /\ "/" \notin Range(t)
    /\ Len(t) <= Len(path)
    /\ SubSeq(path, Len(path) - Len(t) + 1, Len(path)) = t
    /\ Len(t) < Len(path) => path[Len(path) - Len(t)] = "/"

\* C8: record and chart title are the file's name iff the load succeeded
C8_TitleIsFileNameIffLoaded ==
    /\ LoadSucceeded =>
          /\ test_data.csv_title # None
          /\ FinalComponent(filepath[1], test_data.csv_title[1])
    /\ LoadFailed => test_data.csv_title = None
    /\ Called("plot_test_data") =>
          /\ fig[1].title = test_data.csv_title
          /\ LoadSucceeded <=>
                (fig[1].title # None /\ FinalComponent(filepath[1], fig[1].title[1]))

\* a file under a directory was loaded and charted
C8_Witness ==
    /\ Called("plot_test_data")
    /\ LoadSucceeded
    /\ "/" \in Range(filepath[1])
    /\ fig[1].title # None
    /\ Len(fig[1].title[1]) < Len(filepath[1])

====
